---- MODULE Spec2Model ----
(***************************************************************************)
(* A model of nascam_imager_readfile.read(): the per-file worker           *)
(* (__nascam_readfile_worker / __nascam_readfile_worker_png), the          *)
(* dispatcher (sequential loop or multiprocessing.Pool.map) and the        *)
(* aggregation loop that merges the per-file results into one volume.      *)
(*                                                                         *)
(* A frame is identified by <<i, n>>: member n of input file i.  The       *)
(* metadata dictionary parsed from that member's filename is identified by *)
(* the same pair, so "metadata k describes frame k" is equality of the     *)
(* k-th entries.  The input filename of file i is its index i.             *)
(***************************************************************************)
EXTENDS Integers, Sequences, FiniteSets, TLC

\* ---------------------------------------------------------------- constants

EXPECTED_FRAME_COUNT == 20

FrameWidth == 256

FrameHeight == 256

\* ------------------------------------------------------------------- bounds

\* longest input list of the exhaustive small inputs
MaxFiles == 2

\* most members of an archive of the exhaustive small inputs
MaxSmall == 2

\* archives of the large inputs have up to 2 * EXPECTED_FRAME_COUNT + Slack members
Slack == 1

\* number of distinct scratch directory names random.choices can draw
NumDirNames == 2

VARIABLES
    file_list,              \* read(): the input files (a sequence of file descriptions)
    workers,                \* read(): the workers argument
    quiet,                  \* read(): the quiet argument
    pc,                     \* position of read()
    exception,              \* the exception read() raised, "" if none
    sigint,                 \* where a SIGINT was delivered to read(), "none" if not
    wk,                     \* wk[i]: the worker call for file i (locals and position)
    fs,                     \* the scratch root: fs[d] is directory d
    stdout,                 \* the diagnostics printed
    pool_data,              \* read(): per-file results, in list order
    alloc,                  \* read(): image_width, image_height, predicted_num_frames
    images,                 \* read(): the volume, as the sequence of its frames on axis 3
    metadata_dict_list,     \* read(): the metadata list
    problematic_file_list,  \* read(): the problem list
    list_position,          \* read(): the write cursor
    agg_i                   \* read(): the index of the reorganize loop (0: not started)

aggVars == <<alloc, images, metadata_dict_list, problematic_file_list, list_position, agg_i>>

inputVars == <<file_list, workers, quiet>>

vars == <<file_list, workers, quiet, pc, exception, sigint, wk, fs, stdout, pool_data,
          alloc, images, metadata_dict_list, problematic_file_list, list_position, agg_i>>

\* ------------------------------------------------------------------ helpers

Min(a, b) == IF a < b THEN a ELSE b

RECURSIVE Insert(_, _)
Insert(x, s) ==
    IF s = <<>> THEN <<x>>
    ELSE IF x <= Head(s) THEN <<x>> \o s
    ELSE <<Head(s)>> \o Insert(x, Tail(s))

\* sorted(tf.getnames())
RECURSIVE Sorted(_)
Sorted(s) == IF s = <<>> THEN <<>> ELSE Insert(Head(s), Sorted(Tail(s)))

\* the slot of a pre-allocated buffer nothing was written to (np.empty / {})
Filler == <<0, 0>>

Fill(n) == [k \in 1..n |-> Filler]

\* --------------------------------------------------------------- the inputs
\* A file description: its extension, the names of its members in archive
\* order (a plain .png has the one member 1), whether tarfile.open/extractall
\* fails on it, the members whose filename does not parse and the members
\* cv2.imread cannot decode.

File(e, ns, c, bm, bd) ==
    [ext |-> e, names |-> ns, corrupt |-> c, badMeta |-> bm, badDecode |-> bd]

Ascending(n) == [k \in 1..n |-> k]

Descending(n) == [k \in 1..n |-> n + 1 - k]

\* at most one faulty member: none, one whose name does not parse, one that does not decode
Faults(n) ==
    {<<{}, {}>>} \cup {<<{p}, {}>> : p \in 1..n} \cup {<<{}, {p}>> : p \in 1..n}

OtherFile == File("other", <<>>, FALSE, {}, {})

PngFiles == {File("png", <<1>>, FALSE, f[1], f[2]) : f \in Faults(1)}

CorruptTar == File("png.tar", <<1>>, TRUE, {}, {})

SmallTars ==
    UNION {{File("png.tar", ns, FALSE, f[1], f[2]) :
                ns \in {Ascending(n), Descending(n)}, f \in Faults(n)} :
           n \in 0..MaxSmall}

SmallFiles == {OtherFile, CorruptTar} \cup PngFiles \cup SmallTars

SmallLists == UNION {[1..n -> SmallFiles] : n \in 0..MaxFiles}

MaxMembers == 2 * EXPECTED_FRAME_COUNT + Slack

\* a large archive of k decodable members, stored in descending order
BigTar(k) == File("png.tar", Descending(k), FALSE, {}, {})

\* a large archive of n members of which member p does not decode
BigTarOneBad(n, p) == File("png.tar", Descending(n), FALSE, {}, {p})

BigLists ==
    {<<BigTar(k)>> : k \in (MaxSmall + 1)..MaxMembers}
    \cup {<<BigTar(k), File("png", <<1>>, FALSE, {}, {})>> : k \in (MaxSmall + 1)..MaxMembers}
    \cup UNION {{<<BigTarOneBad(n, p)>> : p \in 1..n} :
                 n \in (MaxSmall + 1)..(EXPECTED_FRAME_COUNT + Slack)}

IsTar(i) == file_list[i].ext = "png.tar"

\* -------------------------------------------------------------- the workers

\* the locals of __nascam_readfile_worker_png after its "init" block
IdleWorker ==
    [pc |-> "idle", this_working_dir |-> 0, flist |-> <<>>,
     images |-> <<>>, metadata_dict_list |-> <<>>, problematic |-> FALSE,
     is_first |-> TRUE, error_message |-> "", image_width |-> 0, image_height |-> 0,
     working_dir_created |-> FALSE]

DirNames == 1..NumDirNames

NoDir == [exists |-> FALSE, files |-> {}]

Files == 1..Len(file_list)

Active == {"open", "frames", "rm_scan", "rm_rmdir", "fail_scan", "fail_rmdir"}

Init ==
    /\ file_list \in SmallLists \cup BigLists
    /\ workers \in {1, 2, 5}
    /\ quiet \in BOOLEAN
    /\ pc = "start"
    /\ exception = ""
    /\ sigint = "none"
    /\ wk = [i \in Files |-> IdleWorker]
    /\ fs = [d \in DirNames |-> NoDir]
    /\ stdout = {}
    /\ pool_data = <<>>
    /\ alloc = [image_width |-> 0, image_height |-> 0, predicted_num_frames |-> 0]
    /\ images = <<>>
    /\ metadata_dict_list = <<>>
    /\ problematic_file_list = <<>>
    /\ list_position = 0
    /\ agg_i = 0

\* ------------------------------------------------- the worker, step by step

Say(msg, i) == IF quiet THEN stdout ELSE stdout \cup {<<msg, i>>}

\* how many worker calls run at once: the pool's process count, or the one
\* caller of the sequential loop
Capacity == IF workers > 1 THEN workers ELSE 1

\* what __nascam_readfile_worker returns when the call it wraps raised
ExceptResult(w) ==
    [w EXCEPT !.pc = "returned", !.images = <<>>, !.metadata_dict_list = <<>>,
              !.problematic = TRUE, !.error_message = "failed to process file",
              !.image_width = 0, !.image_height = 0]

\* the unsupported extension: the else branch of __nascam_readfile_worker
UnrecognizedResult(w) == [w EXCEPT !.pc = "returned"]

\* A pool process (or the sequential loop) takes the next file of the list:
\* __nascam_readfile_worker dispatches on the extension, and
\* __nascam_readfile_worker_png draws the name of its working directory.
StartWorker(i) ==
    /\ pc \in {"map", "seq"}
    /\ wk[i].pc = "idle"
    /\ \A j \in Files : j < i => wk[j].pc # "idle"
    /\ Cardinality({j \in Files : wk[j].pc \in Active}) < Capacity
    /\ IF file_list[i].ext = "other"
       THEN /\ wk' = [wk EXCEPT ![i] = UnrecognizedResult(@)]
            /\ stdout' = Say("Unrecognized file type", i)
       ELSE /\ \E d \in DirNames :
                wk' = [wk EXCEPT ![i] =
                        [@ EXCEPT !.this_working_dir = d,
                                  !.pc = IF IsTar(i) THEN "open" ELSE "frames",
                                  !.flist = IF IsTar(i) THEN <<>> ELSE file_list[i].names]]
            /\ UNCHANGED stdout
    /\ UNCHANGED <<inputVars, pc, exception, sigint, fs, pool_data, aggVars>>

\* extractall: every member of the archive is written under the directory
Extracted(i) == {<<i, file_list[i].names[k]>> : k \in 1..Len(file_list[i].names)}

\* where the worker goes when its frame loop has ended
AfterLoop(w) == IF w.working_dir_created THEN "rm_scan" ELSE "returned"

\* tarfile.open, sorted(getnames()), extractall, close.  A corrupt archive
\* raises, possibly after part of it was extracted.
TarOpen(i) ==
    /\ pc \in {"map", "seq"}
    /\ wk[i].pc = "open"
    /\ LET d == wk[i].this_working_dir
           f == file_list[i]
       IN IF f.corrupt
          THEN /\ \E part \in BOOLEAN :
                    fs' = IF part
                          THEN [fs EXCEPT ![d] = [exists |-> TRUE,
                                                  files |-> @.files \cup {<<i, f.names[1]>>}]]
                          ELSE fs
               /\ wk' = [wk EXCEPT ![i] = [@ EXCEPT !.pc = "fail_scan"]]
          ELSE /\ fs' = IF f.names = <<>>
                        THEN fs
                        ELSE [fs EXCEPT ![d] = [exists |-> TRUE,
                                                files |-> @.files \cup Extracted(i)]]
               /\ wk' = [wk EXCEPT ![i] =
                           [@ EXCEPT !.flist = Sorted(f.names),
                                     !.working_dir_created = TRUE,
                                     !.pc = IF f.names = <<>> THEN "rm_scan" ELSE "frames"]]
    /\ UNCHANGED <<inputVars, pc, exception, sigint, stdout, pool_data, aggVars>>

PopNone(s) == s

\* metadata_dict_list.pop()
Pop(s) == SubSeq(s, 1, Len(s) - 1)

\* images = image_matrix for the first frame, np.dstack([images, image_matrix]) after it
Stack(w, frame) == IF w.is_first THEN <<frame>> ELSE Append(w.images, frame)

\* the frames left after a decode failure: continue with the next one
AfterDecodeFailure(rest) == rest

\* One iteration of "for f in file_list" on frame f of file i: the metadata
\* from the filename, then the decode.  present: the file is on disk.
ProcessFrame(w, i, f, present) ==
    IF f \in file_list[i].badMeta
    THEN [w EXCEPT !.problematic = TRUE,
                   !.error_message = "failed to read metadata",
                   !.flist = <<>>]
    ELSE LET appended == Append(w.metadata_dict_list, <<i, f>>)
         IN IF present /\ f \notin file_list[i].badDecode
            THEN [w EXCEPT !.metadata_dict_list = appended,
                           !.image_width = FrameWidth,
                           !.image_height = FrameHeight,
                           !.images = Stack(w, <<i, f>>),
                           !.is_first = FALSE,
                           !.flist = Tail(@)]
            ELSE [w EXCEPT !.metadata_dict_list = Pop(appended),
                           !.problematic = TRUE,
                           !.error_message = "image data read failure",
                           !.flist = AfterDecodeFailure(Tail(@))]

\* is frame f of file i on disk: an archive member is where extractall put
\* it, unless something removed it since
OnDisk(i, f) ==
    IF IsTar(i)
    THEN LET dir == fs[wk[i].this_working_dir]
         IN dir.exists /\ <<i, f>> \in dir.files
    ELSE TRUE

Frame(i) ==
    /\ pc \in {"map", "seq"}
    /\ wk[i].pc = "frames"
    /\ LET f == Head(wk[i].flist)
           w == ProcessFrame(wk[i], i, f, OnDisk(i, f))
       IN /\ wk' = [wk EXCEPT ![i] =
                       [w EXCEPT !.pc = IF w.flist = <<>> THEN AfterLoop(w) ELSE "frames"]]
          /\ stdout' = IF f \in file_list[i].badMeta
                       THEN Say("Failed to read metadata from file", i)
                       ELSE IF OnDisk(i, f) /\ f \notin file_list[i].badDecode
                            THEN stdout
                            ELSE Say("Failed reading image data frame", i)
    /\ UNCHANGED <<inputVars, pc, exception, sigint, fs, pool_data, aggVars>>

\* shutil.rmtree, first half: list the directory and unlink what is in it.
\* The directory must exist.
RmtreeCanScan(dir) == dir.exists

RmtreeScan(dir) == [dir EXCEPT !.files = {}]

\* shutil.rmtree, second half: os.rmdir, which needs the directory to exist
\* and to be empty still
RmtreeCanRmdir(dir) == dir.exists /\ dir.files = {}

\* the cleanup at the end of __nascam_readfile_worker_png: an exception of
\* rmtree leaves the function and is caught by __nascam_readfile_worker
RmScan(i) ==
    /\ pc \in {"map", "seq"}
    /\ wk[i].pc = "rm_scan"
    /\ LET d == wk[i].this_working_dir
       IN IF RmtreeCanScan(fs[d])
          THEN /\ fs' = [fs EXCEPT ![d] = RmtreeScan(@)]
               /\ wk' = [wk EXCEPT ![i] = [@ EXCEPT !.pc = "rm_rmdir"]]
               /\ UNCHANGED stdout
          ELSE /\ wk' = [wk EXCEPT ![i] = ExceptResult(@)]
               /\ stdout' = Say("Failed to process file", i)
               /\ UNCHANGED fs
    /\ UNCHANGED <<inputVars, pc, exception, sigint, pool_data, aggVars>>

RmRmdir(i) ==
    /\ pc \in {"map", "seq"}
    /\ wk[i].pc = "rm_rmdir"
    /\ LET d == wk[i].this_working_dir
       IN IF RmtreeCanRmdir(fs[d])
          THEN /\ fs' = [fs EXCEPT ![d] = NoDir]
               /\ wk' = [wk EXCEPT ![i] = [@ EXCEPT !.pc = "returned"]]
               /\ UNCHANGED stdout
          ELSE /\ wk' = [wk EXCEPT ![i] = ExceptResult(@)]
               /\ stdout' = Say("Failed to process file", i)
               /\ UNCHANGED fs
    /\ UNCHANGED <<inputVars, pc, exception, sigint, pool_data, aggVars>>

\* what __nascam_readfile_worker_png returns when the archive did not open
OpenFailedResult(w) ==
    [w EXCEPT !.pc = "returned", !.problematic = TRUE,
              !.error_message = "failed to open file"]

\* the cleanup of the "except" branch of the archive's extraction: rmtree
\* inside try/except/pass
FailScan(i) ==
    /\ pc \in {"map", "seq"}
    /\ wk[i].pc = "fail_scan"
    /\ LET d == wk[i].this_working_dir
       IN IF RmtreeCanScan(fs[d])
          THEN /\ fs' = [fs EXCEPT ![d] = RmtreeScan(@)]
               /\ wk' = [wk EXCEPT ![i] = [@ EXCEPT !.pc = "fail_rmdir"]]
               /\ UNCHANGED stdout
          ELSE /\ wk' = [wk EXCEPT ![i] = OpenFailedResult(@)]
               /\ stdout' = Say("Failed to open file", i)
               /\ UNCHANGED fs
    /\ UNCHANGED <<inputVars, pc, exception, sigint, pool_data, aggVars>>

FailRmdir(i) ==
    /\ pc \in {"map", "seq"}
    /\ wk[i].pc = "fail_rmdir"
    /\ LET d == wk[i].this_working_dir
       IN /\ fs' = IF RmtreeCanRmdir(fs[d]) THEN [fs EXCEPT ![d] = NoDir] ELSE fs
          /\ wk' = [wk EXCEPT ![i] = OpenFailedResult(@)]
          /\ stdout' = Say("Failed to open file", i)
    /\ UNCHANGED <<inputVars, pc, exception, sigint, pool_data, aggVars>>

\* ------------------------------------------------------------------- read()

\* tar_tempdir, file_list and processing_list are set up
Setup ==
    /\ pc = "start"
    /\ pc' = IF workers > 1 THEN "pool_setup" ELSE "seq"
    /\ UNCHANGED <<inputVars, exception, sigint, wk, fs, stdout, pool_data, aggVars>>

\* Pool(processes=workers), created while SIGINT is ignored
CreatePool ==
    /\ pc = "pool_setup"
    /\ pc' = "map"
    /\ UNCHANGED <<inputVars, exception, sigint, wk, fs, stdout, pool_data, aggVars>>

\* the tuple a worker call returned
ResultOf(w, i) ==
    [images |-> w.images, metadata_dict_list |-> w.metadata_dict_list,
     problematic |-> w.problematic, filename |-> i, error_message |-> w.error_message,
     image_width |-> w.image_width, image_height |-> w.image_height]

\* pool.map's result, and what the sequential loop appended: the results in
\* the order of the list
Gather(ws) == [i \in DOMAIN ws |-> ResultOf(ws[i], i)]

\* pool.map returns, or the sequential loop ends, once every call returned
MapReturn ==
    /\ pc \in {"map", "seq"}
    /\ \A i \in Files : wk[i].pc = "returned"
    /\ pool_data' = Gather(wk)
    /\ pc' = IF pc = "map" THEN "close" ELSE "agg"
    /\ UNCHANGED <<inputVars, exception, sigint, wk, fs, stdout, aggVars>>

\* pool.close(); pool.join()
PoolClose ==
    /\ pc = "close"
    /\ pc' = "agg"
    /\ UNCHANGED <<inputVars, exception, sigint, wk, fs, stdout, pool_data, aggVars>>

\* ------------------------------------------------------- read(): the merge
\* The merge is a function of pool_data: its steps are operators on the
\* record of read()'s locals, and the actions below apply them.

AggLocals ==
    [pc |-> pc, exception |-> exception, alloc |-> alloc, images |-> images,
     metadata_dict_list |-> metadata_dict_list,
     problematic_file_list |-> problematic_file_list, list_position |-> list_position]

\* "set sizes" and "pre-allocate array sizes": pool_data[0] must exist
AggStart(a, pd, nfiles) ==
    IF pd = <<>>
    THEN [a EXCEPT !.pc = "raised", !.exception = "IndexError"]
    ELSE LET predicted_num_frames == nfiles * EXPECTED_FRAME_COUNT
         IN [a EXCEPT !.alloc = [image_width |-> pd[1].image_width,
                                 image_height |-> pd[1].image_height,
                                 predicted_num_frames |-> predicted_num_frames],
                      !.images = Fill(predicted_num_frames),
                      !.metadata_dict_list = Fill(predicted_num_frames),
                      !.problematic_file_list = <<>>,
                      !.list_position = 0]

\* l[pos:pos+n] = items on a Python list: the slice is clipped to the list
\* and replaced by the items, whatever their number
ListSliceAssign(l, pos, n, items) ==
    SubSeq(l, 1, Min(pos, Len(l))) \o items \o SubSeq(l, Min(pos + n, Len(l)) + 1, Len(l))

\* numpy broadcasting of one axis: equal lengths, or a source of length 1
Broadcastable(src, dst) == src = dst \/ src = 1

\* the length of axis 3 of images[:, :, pos:pos+n]: the slice is clipped
SliceDepth(buf, pos, n) == Min(pos + n, Len(buf)) - Min(pos, Len(buf))

\* can images[:, :, pos:pos+n] = r.images be carried out
CanAssign(a, n, r) ==
    /\ Broadcastable(r.image_width, a.alloc.image_width)
    /\ Broadcastable(r.image_height, a.alloc.image_height)
    /\ Broadcastable(Len(r.images), SliceDepth(a.images, a.list_position, n))

\* images[:, :, pos:pos+n] = data
ArraySliceAssign(buf, pos, n, data) ==
    [k \in 1..Len(buf) |->
        IF pos < k /\ k <= pos + SliceDepth(buf, pos, n)
        THEN IF Len(data) = 1 THEN data[1] ELSE data[k - pos]
        ELSE buf[k]]

ProblemEntry(r) == [filename |-> r.filename, error_message |-> r.error_message]

\* the problem list after the "check if file was problematic" of result r
Problems(a, r) ==
    IF r.problematic
    THEN Append(a.problematic_file_list, ProblemEntry(r))
    ELSE a.problematic_file_list

\* one iteration of the "reorganize data" loop, on the result r of one file
AggStep(a, r) ==
    LET real_num_frames == Len(r.images)
    IN IF Len(r.metadata_dict_list) = 0
       THEN [a EXCEPT !.problematic_file_list = Problems(a, r)]
       ELSE IF CanAssign(a, real_num_frames, r)
       THEN [a EXCEPT !.problematic_file_list = Problems(a, r),
                      !.metadata_dict_list =
                          ListSliceAssign(@, a.list_position, real_num_frames,
                                          r.metadata_dict_list),
                      !.images = ArraySliceAssign(@, a.list_position, real_num_frames,
                                                  r.images),
                      !.list_position = @ + real_num_frames]
       ELSE [a EXCEPT !.pc = "raised", !.exception = "ValueError"]

\* np.delete(images, range(list_position, predicted_num_frames), axis=2)
Trim(buf, pos, predicted) ==
    IF pos < predicted THEN SubSeq(buf, 1, pos) ELSE buf

\* "trim unused elements", astype, return
AggEnd(a) ==
    [a EXCEPT !.metadata_dict_list = SubSeq(@, 1, Min(a.list_position, Len(@))),
              !.images = Trim(@, a.list_position, a.alloc.predicted_num_frames),
              !.pc = "done"]

\* read()'s locals become those of the record a
Becomes(a) ==
    /\ pc' = a.pc
    /\ exception' = a.exception
    /\ alloc' = a.alloc
    /\ images' = a.images
    /\ metadata_dict_list' = a.metadata_dict_list
    /\ problematic_file_list' = a.problematic_file_list
    /\ list_position' = a.list_position

AggInit ==
    /\ pc = "agg"
    /\ agg_i = 0
    /\ Becomes(AggStart(AggLocals, pool_data, Len(file_list)))
    /\ agg_i' = 1
    /\ UNCHANGED <<inputVars, sigint, wk, fs, stdout, pool_data>>

AggFile ==
    /\ pc = "agg"
    /\ agg_i \in 1..Len(pool_data)
    /\ Becomes(AggStep(AggLocals, pool_data[agg_i]))
    /\ agg_i' = agg_i + 1
    /\ UNCHANGED <<inputVars, sigint, wk, fs, stdout, pool_data>>

AggTrim ==
    /\ pc = "agg"
    /\ agg_i = Len(pool_data) + 1
    /\ Becomes(AggEnd(AggLocals))
    /\ UNCHANGED <<inputVars, sigint, wk, fs, stdout, pool_data, agg_i>>

TerminateNone(ws) == ws

\* pool.terminate(): the worker processes are killed where they are
Terminate(ws) ==
    [i \in DOMAIN ws |-> IF ws[i].pc \in Active THEN [ws[i] EXCEPT !.pc = "terminated"] ELSE ws[i]]

Terminal == {"done", "raised", "cancelled"}

\* SIGINT is delivered to the process that runs read().  While the pool is
\* created the signal is ignored; inside pool.map the KeyboardInterrupt is
\* caught; anywhere else it leaves read().
Interrupt ==
    /\ pc \notin Terminal
    /\ sigint = "none"
    /\ sigint' = pc
    /\ IF pc = "pool_setup"
       THEN UNCHANGED <<pc, exception, wk, aggVars>>
       ELSE IF pc = "map"
       THEN /\ wk' = Terminate(wk)
            /\ pc' = "cancelled"
            /\ images' = <<>>
            /\ metadata_dict_list' = <<>>
            /\ problematic_file_list' = <<>>
            /\ UNCHANGED <<exception, alloc, list_position, agg_i>>
       ELSE /\ pc' = "raised"
            /\ exception' = "KeyboardInterrupt"
            /\ UNCHANGED <<wk, aggVars>>
    /\ UNCHANGED <<inputVars, fs, stdout, pool_data>>

Next ==
    \/ Setup
    \/ CreatePool
    \/ \E i \in Files : StartWorker(i)
    \/ \E i \in Files : TarOpen(i)
    \/ \E i \in Files : Frame(i)
    \/ \E i \in Files : RmScan(i)
    \/ \E i \in Files : RmRmdir(i)
    \/ \E i \in Files : FailScan(i)
    \/ \E i \in Files : FailRmdir(i)
    \/ MapReturn
    \/ PoolClose
    \/ AggInit
    \/ AggFile
    \/ AggTrim
    \/ Interrupt

Spec == Init /\ [][Next]_vars

\* specifications over narrower inputs, with the same steps

\* read() of a single file
InitSingle == Init /\ Len(file_list) = 1

SpecSingle == InitSingle /\ [][Next]_vars

CancelFiles ==
    {OtherFile, CorruptTar, File("png", <<1>>, FALSE, {}, {}),
     File("png.tar", Ascending(MaxSmall), FALSE, {}, {}),
     File("png.tar", <<1>>, FALSE, {}, {1})}

\* read() with a pool
InitPool ==
    /\ Init
    /\ workers > 1
    /\ \A i \in Files : file_list[i] \in CancelFiles

SpecPool == InitPool /\ [][Next]_vars

\* ------------------------------------------------- the sequential reference
\* What read() computes when every worker call runs alone, one file after
\* the other, with every extracted member on disk until its own cleanup.

RECURSIVE RunFrames(_, _)
RunFrames(w, i) ==
    IF w.flist = <<>> THEN w ELSE RunFrames(ProcessFrame(w, i, Head(w.flist), TRUE), i)

WorkerAlone(i) ==
    LET f == file_list[i]
    IN IF f.ext = "other" THEN UnrecognizedResult(IdleWorker)
       ELSE IF f.ext = "png" THEN RunFrames([IdleWorker EXCEPT !.flist = f.names], i)
       ELSE IF f.corrupt THEN OpenFailedResult(IdleWorker)
       ELSE IF f.names = <<>> THEN ExceptResult(IdleWorker)
       ELSE RunFrames([IdleWorker EXCEPT !.flist = Sorted(f.names)], i)

SeqPoolData == [i \in Files |-> ResultOf(WorkerAlone(i), i)]

RECURSIVE AggFold(_, _, _)
AggFold(a, pd, k) ==
    IF a.pc = "raised" \/ k > Len(pd) THEN a ELSE AggFold(AggStep(a, pd[k]), pd, k + 1)

InitialLocals ==
    [pc |-> "agg", exception |-> "",
     alloc |-> [image_width |-> 0, image_height |-> 0, predicted_num_frames |-> 0],
     images |-> <<>>, metadata_dict_list |-> <<>>, problematic_file_list |-> <<>>,
     list_position |-> 0]

SeqOutcome ==
    LET a == AggFold(AggStart(InitialLocals, SeqPoolData, Len(file_list)), SeqPoolData, 1)
    IN IF a.pc = "raised" THEN a ELSE AggEnd(a)

\* what the caller of read() observes: how it ended and, if it returned, its result
Observed(a) ==
    IF a.pc = "done"
    THEN <<"done", a.images, a.metadata_dict_list, a.problematic_file_list>>
    ELSE <<a.pc, a.exception>>

\* --------------------------------------------------- what the claims expect

RECURSIVE SetToAsc(_)
SetToAsc(S) ==
    IF S = {} THEN <<>>
    ELSE LET m == CHOOSE x \in S : \A y \in S : x <= y
         IN <<m>> \o SetToAsc(S \ {m})

NameSet(i) == {file_list[i].names[k] : k \in 1..Len(file_list[i].names)}

\* the members of file i that come before every member whose name does not parse
BeforeBadMeta(i) == {n \in NameSet(i) : \A m \in file_list[i].badMeta : n < m}

\* the frames of file i that survive: none of a file that does not open or is
\* not supported, else the decodable members up to the first metadata failure,
\* in ascending order of their names
Surviving(i) ==
    LET f == file_list[i]
        keep == IF f.ext = "other" \/ f.corrupt THEN {}
                ELSE BeforeBadMeta(i) \ f.badDecode
        asc == SetToAsc(keep)
    IN [k \in 1..Len(asc) |-> <<i, asc[k]>>]

\* a file every member of which parses and decodes
ValidFile(i) ==
    LET f == file_list[i]
    IN /\ f.ext \in {"png", "png.tar"}
       /\ ~f.corrupt
       /\ f.names # <<>>
       /\ f.badMeta = {}
       /\ f.badDecode = {}

\* a file that yields nothing: corrupt archive, bad filename, every frame
\* undecodable, unsupported extension
FailingFile(i) ==
    LET f == file_list[i]
    IN f.ext = "other" \/ f.corrupt \/ (f.names # <<>> /\ Surviving(i) = <<>>)

Named(i) == \E k \in 1..Len(problematic_file_list) : problematic_file_list[k].filename = i

InVolume(fr) == \E k \in 1..Len(images) : images[k] = fr

\* a sanity property of the model: the sequential run is the reference
SequentialIsReference ==
    (workers = 1 /\ sigint = "none" /\ pc \in Terminal) => Observed(AggLocals) = Observed(SeqOutcome)

\* read() ended and no SIGINT was delivered
Ended == pc \in Terminal /\ sigint = "none"

\* ---------------------------------------------------------------- the claims

\* C1 (as stated): read() of one valid archive of K >= 1 valid members, K
\* above EXPECTED_FRAME_COUNT included, returns normally with a volume of
\* depth K, K metadata entries and an empty problem list.
C1_AnyK ==
    (Len(file_list) = 1 /\ Ended /\ IsTar(1) /\ ValidFile(1))
        => /\ pc = "done"
           /\ Len(images) = Len(file_list[1].names)
           /\ Len(metadata_dict_list) = Len(file_list[1].names)
           /\ problematic_file_list = <<>>

\* C2 (as stated): read([A, B]) returns the surviving frames of A in A's
\* sorted member order, followed by those of B in B's order, and metadata
\* entry k describes frame k.
C2_Concatenation ==
    (Len(file_list) = 2 /\ Ended)
        => /\ pc = "done"
           /\ images = Surviving(1) \o Surviving(2)
           /\ metadata_dict_list = images

\* C3 (as stated): in every result read() returns the metadata list is as
\* long as the volume is deep, and every worker result has as many metadata
\* entries as stacked frames.
C3_LengthsAgree ==
    /\ pc = "done" => Len(metadata_dict_list) = Len(images)
    /\ \A i \in Files :
           wk[i].pc = "returned" => Len(wk[i].metadata_dict_list) = Len(wk[i].images)

\* C4 (as stated): with workers > 1 the per-file results come back in list
\* order and equal those of the sequential run, so read() ends as the
\* sequential run does, with the same volume, metadata list and problem list.
C4_ParallelismInvariance ==
    /\ (workers > 1 /\ pc \in {"close", "agg", "done"}) => pool_data = SeqPoolData
    /\ (workers > 1 /\ Ended) => Observed(AggLocals) = Observed(SeqOutcome)

\* the input lists C5 is about: valid files and failing files only, at least
\* one of them valid
C5Case ==
    /\ \E i \in Files : ValidFile(i)
    /\ \A i \in Files : ValidFile(i) \/ FailingFile(i)

\* C5 (as stated): whatever the positions of the failing files, read()
\* returns without raising, the volume holds every frame of every valid file
\* and every failing file has an entry in the problem list.
C5_ProblemFilesNeverBlock ==
    (C5Case /\ Ended)
        => /\ pc = "done"
           /\ \A i \in Files :
                  /\ ValidFile(i) =>
                        \A k \in 1..Len(Surviving(i)) : InVolume(Surviving(i)[k])
                  /\ FailingFile(i) => Named(i)

\* C6 (as stated): a file with an unsupported extension contributes no frame
\* and has an entry in the problem list, quiet or not.
C6_UnsupportedIsReported ==
    pc = "done"
        => \A i \in Files :
               file_list[i].ext = "other"
                   => /\ \A k \in 1..Len(images) : images[k][1] # i
                      /\ Named(i)

\* C7 (as stated): when the worker call for a .png.tar file returns, the
\* scratch directory it used does not exist.
C7_ScratchRemoved ==
    [][\A i \in Files :
          (IsTar(i) /\ wk[i].pc # "returned" /\ wk'[i].pc = "returned")
              => ~fs'[wk'[i].this_working_dir].exists]_vars

\* read() returned the explicit empty result after terminating the workers
Cancelled ==
    /\ pc = "cancelled"
    /\ \A i \in Files : wk[i].pc \notin Active
    /\ images = <<>>
    /\ metadata_dict_list = <<>>
    /\ problematic_file_list = <<>>

\* C8 (as stated): with workers > 1, a SIGINT delivered at any point of
\* read() makes it terminate the workers and return the empty result.
C8_AnyPoint == (workers > 1 /\ sigint # "none") => Cancelled

\* C8 (amended): a SIGINT delivered while read() is inside pool.map makes it
\* terminate the outstanding workers and return the empty result.
C8_DuringMap == sigint = "map" => Cancelled

C8_Witness ==
    /\ sigint = "map"
    /\ pc = "cancelled"
    /\ \E i, j \in Files : wk[i].pc = "terminated" /\ wk[j].pc = "terminated" /\ i # j

\* the input C9 is about: one archive of N members, N - 1 <= EXPECTED_FRAME_COUNT,
\* every name parses, exactly one member does not decode
C9Case ==
    /\ Len(file_list) = 1
    /\ IsTar(1)
    /\ ~file_list[1].corrupt
    /\ file_list[1].badMeta = {}
    /\ Cardinality(file_list[1].badDecode) = 1
    /\ file_list[1].badDecode \subseteq NameSet(1)
    /\ Len(file_list[1].names) - 1 <= EXPECTED_FRAME_COUNT

\* C9: for such an archive read() returns the other N - 1 frames in sorted
\* order, their N - 1 metadata entries, and one problem entry naming the archive.
C9_OneCorruptFrame ==
    (C9Case /\ Ended)
        => LET others == SetToAsc(NameSet(1) \ file_list[1].badDecode)
               expected == [k \in 1..Len(others) |-> <<1, others[k]>>]
           IN /\ pc = "done"
              /\ Len(images) = Len(file_list[1].names) - 1
              /\ images = expected
              /\ metadata_dict_list = expected
              /\ Len(problematic_file_list) = 1
              /\ problematic_file_list[1].filename = 1

C9_Witness ==
    /\ C9Case
    /\ pc = "done"
    /\ Len(images) = EXPECTED_FRAME_COUNT
    /\ file_list[1].badDecode = {2}
    /\ Len(problematic_file_list) = 1

\* C10 (as stated): no two worker calls on .png.tar files use the same
\* scratch directory at the same time.
C10_ScratchNeverShared ==
    \A i, j \in Files :
        (i # j /\ IsTar(i) /\ IsTar(j) /\ wk[i].pc \in Active /\ wk[j].pc \in Active)
            => wk[i].this_working_dir # wk[j].this_working_dir

====
